---------------------------- MODULE Spec2Model ----------------------------
(***************************************************************************)
(* The Xcode project-manifest scripts of NaviGPT:                          *)
(*   add_phase3_files_to_xcode.py  ("phase3")                              *)
(*   add_phase_files_to_xcode.py   ("phase12")                             *)
(*   add_to_xcode.py               ("manual")                              *)
(*   remove_refs.py                ("remove")                              *)
(*                                                                         *)
(* The manifest (project.pbxproj) is a Python str.  It is modelled as a    *)
(* sequence of tokens, each token standing for a fixed piece of text: the  *)
(* literals the scripts search for and write are tokens of their own, so   *)
(* every str.find / str.rfind / slice of the scripts is a search or a cut  *)
(* at a token boundary.  Positions are 0-based token positions, -1 is      *)
(* Python's "not found"; character offsets (WidthOf) are computed from the *)
(* tokens' widths where the code does character arithmetic.                *)
(***************************************************************************)
EXTENDS Integers, Sequences, FiniteSets, TLC

(***************************************************************************)
(* Tokens                                                                  *)
(***************************************************************************)
\* a piece of literal text
Lit(s)      == s
\* a 24-digit identifier that the manifest already holds
Id(s)       == s
\* "/* name */"
Cmt(name)   == "/* " \o name \o " */"
\* "/* name in Sources */"
CmtIn(name) == "/* " \o name \o " in Sources */"
\* a bare display name, as in "path = name;"
Name(name)  == name

NL           == Lit("\n")
Sp           == Lit(" ")
Tab2         == Lit("\t\t")
Tab3         == Lit("\t\t\t")
Tab4         == Lit("\t\t\t\t")
Comma        == Lit(",")
Eq           == Lit(" = {")
ChildrenOpen == Lit("children = (")
FilesOpen    == Lit("files = (")
ListClose    == Lit(");")
RecordClose  == Lit("};")
BeginBuildFile == Lit("/* Begin PBXBuildFile section */")
BeginFileRef   == Lit("/* Begin PBXFileReference section */")
BuildFileBody  == Lit("isa = PBXBuildFile; fileRef = ")
BuildFileEnd   == Lit("; };")
FileRefBody    == Lit("isa = PBXFileReference; lastKnownFileType = sourcecode.swift; path = ")
FileRefEnd     == Lit("; sourceTree = \"<group>\"; };")

\* generate_uuid: 24 hex characters
UuidLen == 24

\* the n-th identifier generate_uuid hands out, as 24 characters
Uuid(n) ==
    IF n < 10 THEN "F0000000000000000000000" \o ToString(n)
    ELSE IF n < 100 THEN "F000000000000000000000" \o ToString(n)
    ELSE "F00000000000000000000" \o ToString(n)

\* the look-ahead of rfind('children = (', 0, services_group_marker + 100)
ServicesWindow == 100

MainSourcesId  == "E1F569CB2C501D880010BF96"
TestSourcesId  == "E1F569DB2C501D8A0010BF96"
Intern1TestsId == "E1F569E22C501D8A0010BF96"
AnchorName     == "ContentView.swift"
ManualName     == "NaviGPTCore.swift"

\* the number of characters of a token's text
Width(t) == Len(t)

(***************************************************************************)
(* Python str operations on token sequences                                *)
(***************************************************************************)
Min(S) == CHOOSE x \in S : \A y \in S : x <= y
Max(S) == CHOOSE x \in S : \A y \in S : x >= y

\* a slice bound: negative counts from the end, then clamped to 0..len
NormIndex(c, i) ==
    IF i < 0 THEN (IF Len(c) + i < 0 THEN 0 ELSE Len(c) + i)
    ELSE (IF i > Len(c) THEN Len(c) ELSE i)

\* c[:p] and c[p:]
Take(c, p) == SubSeq(c, 1, NormIndex(c, p))
Drop(c, p) == SubSeq(c, NormIndex(c, p) + 1, Len(c))

\* c[:p] + text + c[p:]
Splice(c, p, text) == Take(c, p) \o text \o Drop(c, p)

\* pat occurs in c at position p
At(c, pat, p) ==
    /\ c[p + 1] = pat[1]
    /\ \A j \in 2..Len(pat) : c[p + j] = pat[j]

\* c.find(pat, start): the lowest position at or after start, or -1
Find(c, pat, start) ==
    LET lo == NormIndex(c, start)
        R  == lo..(Len(c) - Len(pat))
    IN IF \E p \in R : At(c, pat, p)
       THEN CHOOSE p \in R :
                At(c, pat, p) /\ \A q \in lo..(p - 1) : ~At(c, pat, q)
       ELSE -1

\* the texts that contain the display name
Mentioning(name) == {Name(name), Cmt(name), CmtIn(name)}

\* the token's text contains the display name
Mentions(t, name) == t \in Mentioning(name)

\* name in c
Contains(c, name) ==
    LET texts == Mentioning(name)
    IN \E i \in 1..Len(c) : c[i] \in texts

\* the position of the token that holds c.find(name), or -1
FindName(c, name) ==
    LET texts == Mentioning(name)
        R     == 0..(Len(c) - 1)
    IN IF \E p \in R : c[p + 1] \in texts
       THEN CHOOSE p \in R :
                c[p + 1] \in texts /\ \A q \in 0..(p - 1) : c[q + 1] \notin texts
       ELSE -1

\* the number of characters of the tokens c[lo..hi]
RECURSIVE WidthOf(_, _, _)
WidthOf(c, lo, hi) ==
    IF lo > hi THEN 0
    ELSE IF lo = hi THEN Width(c[lo])
    ELSE LET mid == (lo + hi) \div 2
         IN WidthOf(c, lo, mid) + WidthOf(c, mid + 1, hi)

\* where in the token that holds it c.find(name) lies: after "/* " in a
\* comment, at the start of a bare name
NameInset(t, name) == IF t = Name(name) THEN 0 ELSE 3

\* c.rfind(tok, 0, end), end being `extra` characters after the start of the
\* token at position m: the highest position at which tok lies wholly before
\* that character offset, or -1.  A token before m ends before m starts; a
\* token after m starts WidthOf(c, m + 1, p) characters after m starts.
RFind(c, tok, m, extra) ==
    LET P == {p \in 0..(Len(c) - 1) :
                /\ c[p + 1] = tok
                /\ \/ p < m
                   \/ /\ p >= m
                      /\ p - m <= extra
                      /\ WidthOf(c, m + 1, p) + Width(tok) <= extra}
    IN IF P = {} THEN -1 ELSE Max(P)

\* c.split('\n'): the pieces between the newlines, in order
Split(c) ==
    LET nl == {i \in 1..Len(c) : c[i] = NL}
        n  == Cardinality(nl)
        Kth(j) == CHOOSE i \in nl : Cardinality({h \in nl : h < i}) = j - 1
    IN [j \in 1..(n + 1) |->
            SubSeq(c, IF j = 1 THEN 1 ELSE Kth(j - 1) + 1,
                      IF j = n + 1 THEN Len(c) ELSE Kth(j) - 1)]

\* '\n'.join(lines)
RECURSIVE JoinRange(_, _, _)
JoinRange(lines, lo, hi) ==
    IF lo > hi THEN <<>>
    ELSE IF lo = hi THEN lines[lo]
    ELSE LET mid == (lo + hi) \div 2
         IN JoinRange(lines, lo, mid) \o <<NL>> \o JoinRange(lines, mid + 1, hi)
Join(lines) == JoinRange(lines, 1, Len(lines))

(***************************************************************************)
(* The request lists of the scripts (display names; the paths are unused)  *)
(***************************************************************************)
Phase3Main == <<"RealTimeCameraProcessor.swift", "EnhancedLiDARProcessor.swift">>

Phase12Main ==
    <<"ConfigManager.swift", "NaviGPTCore.swift", "ModelTypes.swift",
      "NavigationContext.swift", "ObstacleInfo.swift", "VisionModels.swift",
      "CoreMLModelManager.swift", "VisionModelProcessor.swift",
      "DepthEstimationProcessor.swift">>

Phase12Test ==
    <<"ConfigManagerTests.swift", "ObstacleInfoTests.swift", "Phase2Tests.swift">>

MainFiles(s) == IF s = "phase3" THEN Phase3Main ELSE Phase12Main

(***************************************************************************)
(* The text the scripts write                                              *)
(***************************************************************************)
\* new_build_file
NewBuildFile(bf, name, fr) ==
    <<Tab2, bf, Sp, CmtIn(name), Eq, BuildFileBody, fr, Sp, Cmt(name),
      BuildFileEnd, NL>>

\* new_file_ref
NewFileRef(fr, name) ==
    <<Tab2, fr, Sp, Cmt(name), Eq, FileRefBody, Name(name), FileRefEnd, NL>>

\* a membership line written without the indentation that follows it
ChildLineBare(fr, name) == <<Tab4, fr, Sp, Cmt(name), Comma, NL>>

\* f"\t\t\t\t{file_ref_uuid} /* {file_name} */,\n\t\t\t"
ChildLine(fr, name) == <<Tab4, fr, Sp, Cmt(name), Comma, NL, Tab3>>

\* f"\t\t\t\t{build_file_uuid} /* {file_name} in Sources */,\n\t\t\t"
FileLine(bf, name) == <<Tab4, bf, Sp, CmtIn(name), Comma, NL, Tab3>>

(***************************************************************************)
(* The four sub-insertions                                                 *)
(***************************************************************************)
\* a duplicate check that never finds the name
NeverRegistered(c, name) == FALSE

\* the duplicate check of the phase scripts: file_name in content
IsRegistered(c, name) == Contains(c, name)

\* insert_pos = content.find('\n', section) + 1, section possibly -1
AfterHeader(c, marker) == Find(c, <<NL>>, Find(c, <<marker>>, 0)) + 1

InsertBuildFile(c, bf, name, fr) ==
    Splice(c, AfterHeader(c, BeginBuildFile), NewBuildFile(bf, name, fr))

InsertFileRef(c, fr, name) ==
    Splice(c, AfterHeader(c, BeginFileRef), NewFileRef(fr, name))

\* the children list that precedes the first occurrence of ContentView.swift
AddToAnchorGroup(c, fr, name) ==
    LET content_view_pos == FindName(c, AnchorName)
    IN IF content_view_pos = -1 THEN c
       ELSE LET search_start ==
                    RFind(c, ChildrenOpen, content_view_pos,
                          NameInset(c[content_view_pos + 1], AnchorName))
            IN IF search_start = -1 THEN c
               ELSE Splice(c, Find(c, <<ListClose>>, search_start),
                           ChildLine(fr, name))

\* Phase 3: the Services group, else the anchor's group
AddToServicesGroup(c, fr, name) ==
    LET services_group_marker == Find(c, <<Cmt("Services")>>, 0)
    IN IF services_group_marker # -1
       THEN LET search_start ==
                    RFind(c, ChildrenOpen, services_group_marker, ServicesWindow)
            IN IF search_start = -1 THEN c
               ELSE Splice(c, Find(c, <<ListClose>>, search_start),
                           ChildLine(fr, name))
       ELSE AddToAnchorGroup(c, fr, name)

\* Phase 1 & 2 test files: the Intern1Tests group for Phase2Tests, else the
\* anchor's group
AddToTestGroup(c, fr, name) ==
    IF name = "Phase2Tests.swift"
    THEN LET intern1tests_pos ==
                 Find(c, <<Id(Intern1TestsId), Sp, Cmt("Intern1Tests")>>, 0)
         IN IF intern1tests_pos = -1 THEN c
            ELSE LET children_start == Find(c, <<ChildrenOpen>>, intern1tests_pos)
                 IN Splice(c, Find(c, <<ListClose>>, children_start),
                           ChildLine(fr, name))
    ELSE AddToAnchorGroup(c, fr, name)

\* the files list that follows the first occurrence of "<id> /* Sources */"
AddToTarget(c, targetId, bf, name) ==
    LET target == Find(c, <<Id(targetId), Sp, Cmt("Sources")>>, 0)
    IN IF target = -1 THEN c
       ELSE LET files_start == Find(c, <<FilesOpen>>, target)
            IN Splice(c, Find(c, <<ListClose>>, files_start), FileLine(bf, name))

\* add_to_xcode.py: the files list that follows the first "/* Sources */ = {"
AddToFirstSources(c, bf, name) ==
    LET sources_phase == Find(c, <<Cmt("Sources"), Eq>>, 0)
    IN IF sources_phase = -1 THEN c
       ELSE LET files_start == Find(c, <<FilesOpen>>, sources_phase)
            IN IF files_start = -1 THEN c
               ELSE Splice(c, Find(c, <<ListClose>>, files_start),
                           FileLine(bf, name))

\* the group step of a main-target file
AddToMainGroup(s, c, fr, name) ==
    IF s = "phase3" THEN AddToServicesGroup(c, fr, name)
    ELSE AddToAnchorGroup(c, fr, name)

\* a filter that drops nothing
KeepEveryLine(line) == TRUE

\* a filter that drops only the file-reference entry of NaviGPTCore.swift
KeepAllButFileRef(line) ==
    ~(Contains(line, ManualName) /\ \E i \in 1..Len(line) : line[i] = FileRefBody)

\* remove_refs.py: drop every line that contains NaviGPTCore.swift
KeepLine(line) == ~Contains(line, ManualName)

RemoveRefs(c) == Join(SelectSeq(Split(c), KeepLine))

(***************************************************************************)
(* The manifests the scripts are run on: project.pbxproj as Xcode writes   *)
(* it (one record or list member per line, lists closed by "\t\t\t);",     *)
(* every reference followed by the comment naming its referent), with the  *)
(* parts the scripts look for present or absent and in either order.       *)
(***************************************************************************)
AnchorRefId   == "E1F569D22C501D880010BF96"
AnchorBuildId == "E1F569D32C501D880010BF96"
MainGroupId   == "E1F569C62C501D880010BF96"
ServicesId    == "A1B2C3D42C501D880010BF96"
TargetId      == "E1F569CE2C501D880010BF96"
ResourcesId   == "E1F569CD2C501D880010BF96"
CoreRefId     == "0C11AA012C501D880010BF96"
CoreBuildId   == "0C11AA022C501D880010BF96"

Line(toks) == toks \o <<NL>>

Opt(b, toks) == IF b THEN toks ELSE <<>>

\* a group record: header, isa, children list, path, close
GroupRecord(id, name, members) ==
    Line(<<Tab2, Id(id), Sp, Cmt(name), Eq>>)
    \o Line(<<Lit("\t\t\tisa = PBXGroup;")>>)
    \o Line(<<Tab3, ChildrenOpen>>)
    \o members
    \o Line(<<Tab3, ListClose>>)
    \o Line(<<Lit("\t\t\tsourceTree = \"<group>\";")>>)
    \o Line(<<Tab2, RecordClose>>)

\* a build-phase record: header, isa, files list, close
PhaseRecord(id, name, isa, members) ==
    Line(<<Tab2, Id(id), Sp, Cmt(name), Eq>>)
    \o Line(<<Lit(isa)>>)
    \o Line(<<Tab3, FilesOpen>>)
    \o members
    \o Line(<<Tab3, ListClose>>)
    \o Line(<<Tab2, RecordClose>>)

Member(id, name) == Line(<<Tab4, Id(id), Sp, Cmt(name), Comma>>)

MemberIn(id, name) == Line(<<Tab4, Id(id), Sp, CmtIn(name), Comma>>)

BuildFileSection(m) ==
    Opt(m.bfMarker, Line(<<BeginBuildFile>>))
    \o Opt(m.anchor, NewBuildFile(Id(AnchorBuildId), AnchorName, Id(AnchorRefId)))
    \o Opt(m.core, NewBuildFile(Id(CoreBuildId), ManualName, Id(CoreRefId)))
    \o Opt(m.bfMarker, Line(<<Lit("/* End PBXBuildFile section */")>>))

FileRefSection(m) ==
    Opt(m.frMarker, Line(<<BeginFileRef>>))
    \o Opt(m.anchor, NewFileRef(Id(AnchorRefId), AnchorName))
    \o Opt(m.core, NewFileRef(Id(CoreRefId), ManualName))
    \o Opt(m.frMarker, Line(<<Lit("/* End PBXFileReference section */")>>))

MainGroup(m) ==
    GroupRecord(MainGroupId, "NaviGPT",
        Opt(m.anchor, Member(AnchorRefId, AnchorName))
        \o Opt(m.core, Member(CoreRefId, ManualName))
        \o Opt(m.services # "none", Member(ServicesId, "Services"))
        \o Opt(m.tests, Member(Intern1TestsId, "Intern1Tests")))

ServicesGroup == GroupRecord(ServicesId, "Services", <<>>)

GroupSection(m) ==
    Opt(m.services = "first", ServicesGroup)
    \o MainGroup(m)
    \o Opt(m.services = "last", ServicesGroup)
    \o Opt(m.tests, GroupRecord(Intern1TestsId, "Intern1Tests", <<>>))

\* the native target that lists the Sources phase, and the Resources phase
\* that Xcode writes between the targets and the Sources phases
TargetSection(m) ==
    Opt(m.target = "listed",
        Line(<<Tab2, Id(TargetId), Sp, Cmt("NaviGPT"), Eq>>)
        \o Line(<<Lit("\t\t\tisa = PBXNativeTarget;")>>)
        \o Line(<<Lit("\t\t\tbuildPhases = (")>>)
        \o Member(MainSourcesId, "Sources")
        \o Member(ResourcesId, "Resources")
        \o Line(<<Tab3, ListClose>>)
        \o Line(<<Tab2, RecordClose>>)
        \o PhaseRecord(ResourcesId, "Resources", "\t\t\tisa = PBXResourcesBuildPhase;", <<>>))

SourcesSection(m) ==
    Opt(m.target # "none",
        PhaseRecord(MainSourcesId, "Sources", "\t\t\tisa = PBXSourcesBuildPhase;",
                    Opt(m.anchor, MemberIn(AnchorBuildId, AnchorName))
                    \o Opt(m.core, MemberIn(CoreBuildId, ManualName))))
    \o Opt(m.tests,
        PhaseRecord(TestSourcesId, "Sources", "\t\t\tisa = PBXSourcesBuildPhase;", <<>>))

Manifest(m) ==
    Line(<<Lit("// !$*UTF8*$!")>>)
    \o Line(<<Lit("{")>>)
    \o (IF m.groupsFirst
        THEN GroupSection(m) \o BuildFileSection(m) \o FileRefSection(m)
        ELSE BuildFileSection(m) \o FileRefSection(m) \o GroupSection(m))
    \o TargetSection(m)
    \o SourcesSection(m)
    \o <<Lit("}")>>
    \o Opt(m.finalNewline, <<NL>>)

\* a section marker is missing only from otherwise complete manifests, and a
\* pre-registered NaviGPTCore.swift is in complete manifests only
Complete(m) ==
    m.anchor /\ m.services = "first" /\ m.target = "listed" /\ m.finalNewline

Shapes ==
    {m \in [bfMarker : BOOLEAN, frMarker : BOOLEAN, anchor : BOOLEAN,
            services : {"none", "first", "last"}, tests : BOOLEAN,
            target : {"none", "only", "listed"}, groupsFirst : BOOLEAN,
            finalNewline : BOOLEAN, core : BOOLEAN] :
        /\ (m.bfMarker \/ m.frMarker)
        /\ (m.tests <=> m.target # "none")
        /\ (m.groupsFirst => m.anchor)
        /\ (~m.finalNewline =>
                ~(m.bfMarker /\ m.frMarker)
                /\ m.anchor /\ m.services = "first" /\ m.target = "listed")
        /\ (~(m.bfMarker /\ m.frMarker) \/ m.core => Complete(m) \/ ~m.finalNewline)
        /\ (m.core => m.bfMarker /\ m.frMarker)}

Manifests == {Manifest(m) : m \in Shapes}

(***************************************************************************)
(* The state: the file on disk and the one script process running on it    *)
(***************************************************************************)
VARIABLES
    disk,        \* the text of project.pbxproj
    diskExists,  \* whether project.pbxproj exists
    script,      \* the script of the current (or last) process
    pc,          \* where that process is: idle, read, main, test, body, write, exited
    content,     \* the process's in-memory copy of the manifest
    idx,         \* the index of the next request of the current loop
    log,         \* the files this run reported as added, with their identifiers
    skipped,     \* the files this run reported as skipped
    exitStatus,  \* the exit status, once pc = "exited"
    writes,      \* how many times this run has written the file
    nextUuid,    \* the number of identifiers generate_uuid has handed out
    runs,        \* the number of processes started
    prevScript,  \* the script of the process before this one
    prevExit,    \* its exit status
    faults       \* the number of I/O errors so far

vars == <<disk, diskExists, script, pc, content, idx, log, skipped, exitStatus,
          writes, nextUuid, runs, prevScript, prevExit, faults>>

\* the number of I/O errors (a file that exists but cannot be read, or cannot
\* be opened for writing) in one behaviour
MaxFaults == 1

\* the number of script runs in one behaviour
MaxRuns == 2

PhaseScripts == {"phase3", "phase12"}
Scripts == PhaseScripts \cup {"manual", "remove"}

\* uuid.uuid4(), cut to 24 hex digits: the n-th identifier handed out; two
\* draws are taken to differ
GenerateUuid(n) == Uuid(n)

Init ==
    /\ \/ diskExists = TRUE /\ disk \in Manifests
       \/ diskExists = FALSE /\ disk = <<>>
    /\ script = "none"
    /\ pc = "idle"
    /\ content = <<>>
    /\ idx = 1
    /\ log = <<>>
    /\ skipped = {}
    /\ exitStatus = 0
    /\ writes = 0
    /\ nextUuid = 1
    /\ runs = 0
    /\ prevScript = "none"
    /\ prevExit = 0
    /\ faults = 0

\* __main__ of a phase script finds no project file: exit 1 before anything
\* else; every other start goes on to open the file
MissingExits(s) == s \in PhaseScripts /\ ~diskExists

\* a script is started, once the previous process has ended
Launch(s) ==
    /\ pc \in {"idle", "exited"}
    /\ runs < MaxRuns
    /\ script' = s
    /\ runs' = runs + 1
    /\ prevScript' = script
    /\ prevExit' = exitStatus
    /\ content' = <<>>
    /\ idx' = 1
    /\ log' = <<>>
    /\ skipped' = {}
    /\ writes' = 0
    /\ pc' = IF MissingExits(s) THEN "exited" ELSE "read"
    /\ exitStatus' = IF MissingExits(s) THEN 1 ELSE 0
    /\ UNCHANGED <<disk, diskExists, nextUuid, faults>>

\* with open(project_file, 'r') as f: content = f.read()
ReadOk ==
    /\ pc = "read"
    /\ diskExists
    /\ content' = disk
    /\ pc' = IF script \in PhaseScripts THEN "main" ELSE "body"
    /\ UNCHANGED <<disk, diskExists, script, idx, log, skipped, exitStatus,
                   writes, nextUuid, runs, prevScript, prevExit, faults>>

\* open or read raises (no such file; or the file is unreadable or
\* undecodable): the phase scripts catch it and exit 1, the other two die of
\* it with status 1
ReadFails ==
    /\ pc = "read"
    /\ IF diskExists
       THEN faults < MaxFaults /\ faults' = faults + 1
       ELSE faults' = faults
    /\ pc' = "exited"
    /\ exitStatus' = 1
    /\ UNCHANGED <<disk, diskExists, script, content, idx, log, skipped,
                   writes, nextUuid, runs, prevScript, prevExit>>

\* what the run knows of a file it reported as added: its identifiers, and
\* whether the group and the target sub-insertions were made
Added(name, fr, bf, grp, tgt) ==
    [name |-> name, fr |-> fr, bf |-> bf, grp |-> grp, tgt |-> tgt]

\* the outcome of registering one file: c2 the text after the two entries,
\* c3 after the group step, c4 after the target step
Outcome(name, fr, bf, c2, c3, c4) ==
    [content |-> c4, added |-> Added(name, fr, bf, c3 # c2, c4 # c3)]

\* the target step of a file, the text before it being c3
TargetStep(targetId, name, fr, bf, c2, c3) ==
    Outcome(name, fr, bf, c2, c3, AddToTarget(c3, targetId, bf, name))

\* the group step and the target step of a main-target file
MainSteps(s, name, fr, bf, c2) ==
    TargetStep(MainSourcesId, name, fr, bf, c2, AddToMainGroup(s, c2, fr, name))

\* the group step and the target step of a test-target file
TestSteps(name, fr, bf, c2) ==
    TargetStep(TestSourcesId, name, fr, bf, c2, AddToTestGroup(c2, fr, name))

\* the four insertions of one main-target file
RegisterMain(s, c, name, fr, bf) ==
    MainSteps(s, name, fr, bf,
              InsertFileRef(InsertBuildFile(c, bf, name, fr), fr, name))

\* the four insertions of one test-target file
RegisterTest(c, name, fr, bf) ==
    TestSteps(name, fr, bf,
              InsertFileRef(InsertBuildFile(c, bf, name, fr), fr, name))

\* a phase script that writes right after its main-target loop
StraightToWrite(s) == "write"

\* where a phase script goes after its main-target loop
AfterMain(s) == IF s = "phase12" THEN "test" ELSE "write"

\* one iteration of "for file_path, file_name in main_target_files"
MainFile ==
    /\ pc = "main"
    /\ LET name == MainFiles(script)[idx]
       IN IF IsRegistered(content, name)
          THEN /\ skipped' = skipped \cup {name}
               /\ UNCHANGED <<content, log, nextUuid>>
          ELSE /\ \E r \in {RegisterMain(script, content, name,
                                         GenerateUuid(nextUuid),
                                         GenerateUuid(nextUuid + 1))} :
                      /\ content' = r.content
                      /\ log' = Append(log, r.added)
               /\ nextUuid' = nextUuid + 2
               /\ UNCHANGED skipped
    /\ IF idx < Len(MainFiles(script))
       THEN idx' = idx + 1 /\ pc' = pc
       ELSE idx' = 1 /\ pc' = AfterMain(script)
    /\ UNCHANGED <<disk, diskExists, script, exitStatus, writes, runs,
                   prevScript, prevExit, faults>>

\* one iteration of "for file_path, file_name in test_target_files"
TestFile ==
    /\ pc = "test"
    /\ LET name == Phase12Test[idx]
       IN IF IsRegistered(content, name)
          THEN /\ skipped' = skipped \cup {name}
               /\ UNCHANGED <<content, log, nextUuid>>
          ELSE /\ \E r \in {RegisterTest(content, name, GenerateUuid(nextUuid),
                                         GenerateUuid(nextUuid + 1))} :
                      /\ content' = r.content
                      /\ log' = Append(log, r.added)
               /\ nextUuid' = nextUuid + 2
               /\ UNCHANGED skipped
    /\ IF idx < Len(Phase12Test)
       THEN idx' = idx + 1 /\ pc' = pc
       ELSE idx' = 1 /\ pc' = "write"
    /\ UNCHANGED <<disk, diskExists, script, exitStatus, writes, runs,
                   prevScript, prevExit, faults>>

\* add_file_manually returns False: a section marker is not in the text
ManualSectionMissing(c) ==
    \/ Find(c, <<BeginBuildFile>>, 0) = -1
    \/ Find(c, <<BeginFileRef>>, 0) = -1

\* the group step and the target step of add_file_manually
ManualSteps(fr, bf, c2, c3) ==
    Outcome(ManualName, fr, bf, c2, c3, AddToFirstSources(c3, bf, ManualName))

\* the anchor-group step of add_file_manually, the text before it being c2
ManualGroupStep(fr, bf, c2) ==
    ManualSteps(fr, bf, c2, AddToAnchorGroup(c2, fr, ManualName))

\* the four insertions of add_file_manually
RegisterManual(c, fr, bf) ==
    ManualGroupStep(fr, bf,
        InsertFileRef(InsertBuildFile(c, bf, ManualName, fr), fr, ManualName))

\* add_file_manually between its read and its write; it has no duplicate
\* check
ManualBody ==
    /\ pc = "body"
    /\ script = "manual"
    /\ nextUuid' = nextUuid + 2
    /\ IF ManualSectionMissing(content)
       THEN /\ pc' = "exited"
            /\ exitStatus' = 1
            /\ UNCHANGED <<content, log>>
       ELSE /\ \E r \in {RegisterManual(content, GenerateUuid(nextUuid),
                                        GenerateUuid(nextUuid + 1))} :
                   /\ content' = r.content
                   /\ log' = Append(log, r.added)
            /\ pc' = "write"
            /\ UNCHANGED exitStatus
    /\ UNCHANGED <<disk, diskExists, script, idx, skipped, writes, runs,
                   prevScript, prevExit, faults>>

\* remove_refs.py between its read and its write
RemoveBody ==
    /\ pc = "body"
    /\ script = "remove"
    /\ content' = RemoveRefs(content)
    /\ pc' = "write"
    /\ UNCHANGED <<disk, diskExists, script, idx, log, skipped, exitStatus,
                   writes, nextUuid, runs, prevScript, prevExit, faults>>

\* what with open(project_file, 'w') as f: f.write(content) leaves on disk
Written(c) == c

WriteOk ==
    /\ pc = "write"
    /\ disk' = Written(content)
    /\ writes' = writes + 1
    /\ pc' = "exited"
    /\ exitStatus' = 0
    /\ UNCHANGED <<diskExists, script, content, idx, log, skipped, nextUuid,
                   runs, prevScript, prevExit, faults>>

\* open(project_file, 'w') raises (the file is not writable): nothing is
\* written, and the process ends with status 1
WriteFails ==
    /\ pc = "write"
    /\ faults < MaxFaults
    /\ faults' = faults + 1
    /\ pc' = "exited"
    /\ exitStatus' = 1
    /\ UNCHANGED <<disk, diskExists, script, content, idx, log, skipped,
                   writes, nextUuid, runs, prevScript, prevExit>>

Next ==
    \/ \E s \in Scripts : Launch(s)
    \/ ReadOk
    \/ ReadFails
    \/ MainFile
    \/ TestFile
    \/ ManualBody
    \/ RemoveBody
    \/ WriteOk
    \/ WriteFails

Spec == Init /\ [][Next]_vars

(***************************************************************************)
(* Reading a manifest: records, entries, list members                      *)
(***************************************************************************)
RegScripts == PhaseScripts \cup {"manual"}

Range(f) == {f[i] : i \in 1..Len(f)}

\* every request of a phase script, in the order it is processed
Requests(s) == IF s = "phase3" THEN Phase3Main ELSE Phase12Main \o Phase12Test

\* the positions at which pat occurs in c
Occ(c, pat) == {p \in 0..(Len(c) - Len(pat)) : At(c, pat, p)}

\* the positions of the record headers "\t\t<id> /* name */ = {" of c
Headers(c) ==
    {q \in 0..(Len(c) - 6) :
        c[q + 1] = Tab2 /\ c[q + 3] = Sp /\ c[q + 5] = Eq /\ c[q + 6] = NL}

\* the headers of the records of that name, and of that identifier
HeadersNamed(c, name) == {q \in Headers(c) : c[q + 4] = Cmt(name)}
HeadersOf(c, id) == {q \in Headers(c) : c[q + 2] = id}

\* the positions of the list members "<id> /* ... */," with that identifier
Members(c, id) ==
    {p \in 0..(Len(c) - 4) : c[p + 1] = id /\ c[p + 2] = Sp /\ c[p + 4] = Comma}

\* the header of the record a position lies in (-1 before the first record)
Owner(c, p) ==
    LET H == {q \in Headers(c) : q < p}
    IN IF H = {} THEN -1 ELSE Max(H)

\* the records whose lists hold the identifier as a member
MemberLists(c, id) == {Owner(c, p) : p \in Members(c, id)}

\* the opener of the list a member position lies in
ListKind(c, p) ==
    LET O == {q \in 1..p : c[q] \in {ChildrenOpen, FilesOpen,
                                     Lit("\t\t\tbuildPhases = (")}}
    IN IF O = {} THEN "" ELSE c[Max(O)]

\* the identifiers that entries and records declare
Declared(c) ==
    {c[q + 1] : q \in {q \in 0..(Len(c) - 4) : c[q + 2] = Sp /\ c[q + 4] = Eq}}

\* the identifiers that list members and build-file entries refer to
Referenced(c) ==
    {c[p + 1] : p \in {p \in 0..(Len(c) - 4) : c[p + 2] = Sp /\ c[p + 4] = Comma}}
    \cup {c[p + 1] : p \in {p \in 1..(Len(c) - 1) : c[p] = BuildFileBody}}

RefsResolve(c) == Referenced(c) \subseteq Declared(c)

\* the run before this one was the same phase script and ended with status 0
SecondRun == script \in PhaseScripts /\ prevScript = script /\ prevExit = 0

\* the file the process is about to register
CurrentName ==
    IF pc = "main" THEN MainFiles(script)[idx]
    ELSE IF pc = "test" THEN Phase12Test[idx]
    ELSE ManualName

\* every request of the run has been processed
AllProcessed ==
    IF script \in PhaseScripts
    THEN Len(log) + Cardinality(skipped) = Len(Requests(script))
    ELSE script = "manual" => Len(log) = 1

\* the number of lines the run's registrations are to have added
LinesDue ==
    LET n(e) == 2 + (IF e.grp THEN 1 ELSE 0) + (IF e.tgt THEN 1 ELSE 0)
        F[i \in 0..Len(log)] == IF i = 0 THEN 0 ELSE F[i - 1] + n(log[i])
    IN F[Len(log)]

\* the identifiers this run generated
RunIds == {log[i].fr : i \in 1..Len(log)} \cup {log[i].bf : i \in 1..Len(log)}

(***************************************************************************)
(* The claims                                                              *)
(***************************************************************************)

\* C1: a phase script run right after a successful run of the same script
\* writes back exactly the manifest the first run left on disk, adds nothing
\* and skips every request.
C1_Idempotent ==
    (SecondRun /\ pc = "write") =>
        /\ Written(content) = disk
        /\ log = <<>>
        /\ skipped = Range(Requests(script))

C1_Witness ==
    /\ SecondRun
    /\ script = "phase12"
    /\ pc = "write"
    /\ Contains(disk, "ConfigManager.swift")

\* the four records of one added file in manifest c
FourRecords(c, e) ==
    /\ Cardinality(Occ(c, <<Sp, Cmt(e.name), Eq, FileRefBody>>)) = 1
    /\ Cardinality(Occ(c, <<e.fr, Sp, Cmt(e.name), Eq, FileRefBody>>)) = 1
    /\ Cardinality(Occ(c, <<Sp, CmtIn(e.name), Eq, BuildFileBody>>)) = 1
    /\ Cardinality(Occ(c, <<e.bf, Sp, CmtIn(e.name), Eq, BuildFileBody, e.fr>>)) = 1
    /\ Cardinality({p \in Members(c, e.fr) :
                        c[p + 3] = Cmt(e.name) /\ ListKind(c, p) = ChildrenOpen}) = 1
    /\ Cardinality({p \in Members(c, e.bf) :
                        c[p + 3] = CmtIn(e.name) /\ ListKind(c, p) = FilesOpen}) = 1

\* C2: after a phase script has ended with status 0, every file it reported
\* as added has all four records: one file-reference entry, one build-file
\* entry whose fileRef is that entry's identifier, one membership in a
\* children list and one membership in a files list.
C2_FourWayCoupling ==
    (script \in PhaseScripts /\ pc = "exited" /\ exitStatus = 0) =>
        \A i \in 1..Len(log) : FourRecords(disk, log[i])

\* C3: a registration step that finds the file's display name in the
\* manifest text inserts nothing and reports a skip.
C3_DuplicateSkipped ==
    [][(/\ script \in RegScripts
        /\ pc \in {"main", "test", "body"}
        /\ Contains(content, CurrentName))
       => (content' = content /\ CurrentName \in skipped')]_vars

\* a line in which NaviGPTCore.swift does not occur
NameFree(line) == \A i \in 1..Len(line) : ~Mentions(line[i], ManualName)

\* C4: what remove_refs.py writes is its input without the lines that
\* contain NaviGPTCore.swift, and no line of it contains the name.
C4_RemovalSuperset ==
    /\ (script = "remove" /\ pc = "write") =>
            /\ Split(Written(content)) = SelectSeq(Split(disk), NameFree)
            /\ ~Contains(Written(content), ManualName)
    /\ (script = "remove" /\ pc = "exited" /\ exitStatus = 0) =>
            ~Contains(disk, ManualName)

C4_Witness ==
    /\ script = "remove"
    /\ pc = "write"
    /\ prevScript = "manual"
    /\ prevExit = 0
    /\ Contains(disk, ManualName)
    /\ content # disk

\* C5: what a registration script is about to write is its input with
\* whole lines added: the lines that carry none of the run's identifiers are
\* the input's lines, in order; each added file adds two entry lines and one
\* line per membership; and in a phase script the lines that mention no
\* added file are the input's lines too.
C5_OnlyWholeLinesAdded ==
    (script \in RegScripts /\ pc = "write") =>
        LET ids == RunIds
            names == {log[i].name : i \in 1..Len(log)}
            Old(line) == \A i \in 1..Len(line) : line[i] \notin ids
            Unnamed(line) ==
                \A i \in 1..Len(line) : \A n \in names : ~Mentions(line[i], n)
            before == Split(disk)
            after  == Split(Written(content))
        IN /\ SelectSeq(after, Old) = before
           /\ Len(after) = Len(before) + LinesDue
           /\ script \in PhaseScripts => SelectSeq(after, Unnamed) = before

C5_Witness ==
    /\ script = "manual"
    /\ pc = "write"
    /\ Len(log) = 1
    /\ log[1].grp
    /\ log[1].tgt
    /\ Len(Split(content)) = Len(Split(disk)) + 4

\* C6: a registration run writes the file at most once, and only from its
\* write step with every request processed; no other step changes the file;
\* and a run that ends without having written ends with status 1.
C6_SinglePersist ==
    /\ [](script \in RegScripts => writes <= 1)
    /\ [][(disk' # disk \/ writes' = writes + 1)
            => (pc = "write" /\ writes = 0 /\ AllProcessed)]_vars
    /\ [][(script' \in RegScripts /\ pc # pc' /\ pc' = "exited" /\ writes' = 0)
            => (exitStatus' = 1 /\ disk' = disk)]_vars

C6_Witness ==
    /\ script = "manual"
    /\ pc = "exited"
    /\ exitStatus = 1
    /\ diskExists
    /\ faults = 0
    /\ writes = 0

\* C7: whenever no script is running, every identifier that a list member
\* or a build-file entry of the manifest on disk refers to is declared by an
\* entry or a record of the manifest.
C7_RefsResolve ==
    (diskExists /\ pc \in {"idle", "exited"}) => RefsResolve(disk)

C7_Witness ==
    /\ script = "remove"
    /\ pc = "exited"
    /\ exitStatus = 0
    /\ prevScript = "phase12"
    /\ prevExit = 0
    /\ Contains(disk, "ConfigManager.swift")
    /\ ~Contains(disk, ManualName)

\* C8: in Phase 3, when the manifest has a group named Services, each added
\* file's file-reference identifier is a member of the Services group's
\* children list and of no other list.
C8_ServicesGroup ==
    (script = "phase3" /\ pc = "write") =>
        \A i \in 1..Len(log) :
            HeadersNamed(content, "Services") # {} =>
                MemberLists(content, log[i].fr) = HeadersNamed(content, "Services")

\* the group step of the added file went by the anchor, not by a named group
ByAnchor(e) ==
    \/ script = "manual"
    \/ script = "phase12" /\ e.name # "Phase2Tests.swift"
    \/ script = "phase3" /\ Find(content, <<Cmt("Services")>>, 0) = -1

\* the records whose lists hold ContentView.swift's file reference
AnchorLists(c) ==
    {Owner(c, p) :
        p \in {p \in 0..(Len(c) - 4) :
                  c[p + 2] = Sp /\ c[p + 3] = Cmt(AnchorName) /\ c[p + 4] = Comma}}

\* C9: when the group step goes by the anchor and ContentView.swift is a
\* member of a group's children list, each added file's file-reference
\* identifier is a member of that same list and of no other.
C9_AnchorGroup ==
    (script \in RegScripts /\ pc = "write") =>
        \A i \in 1..Len(log) :
            (ByAnchor(log[i]) /\ AnchorLists(content) # {}) =>
                MemberLists(content, log[i].fr) = AnchorLists(content)

\* the Sources phase a file of a phase script is meant for
TargetOf(name) ==
    IF name \in Range(Phase12Test) THEN TestSourcesId ELSE MainSourcesId

\* C10: when the target's Sources identifier occurs in the manifest, each
\* added file's build-file identifier is a member of the files list of the
\* record declared under that identifier and of no other list.
C10_TargetPhase ==
    (script \in PhaseScripts /\ pc = "write") =>
        \A i \in 1..Len(log) :
            (\E j \in 1..Len(content) : content[j] = TargetOf(log[i].name)) =>
                MemberLists(content, log[i].bf)
                    = HeadersOf(content, TargetOf(log[i].name))

\* a section marker the scripts look for is absent from manifest c
MarkerMissing(c, marker) == Find(c, <<marker>>, 0) = -1

\* C11: when a section marker is missing from the manifest, the entry that
\* belongs under it is inserted nowhere in the text for any file of the run,
\* and the run is not aborted because of the missing marker.
C11_MissingMarkerSoft ==
    /\ (script \in RegScripts /\ pc = "write") =>
            \A i \in 1..Len(log) :
                /\ MarkerMissing(disk, BeginBuildFile) =>
                        Occ(content, <<log[i].bf, Sp, CmtIn(log[i].name), Eq>>) = {}
                /\ MarkerMissing(disk, BeginFileRef) =>
                        Occ(content, <<log[i].fr, Sp, Cmt(log[i].name), Eq>>) = {}
    /\ ~(/\ script = "manual"
         /\ pc = "exited"
         /\ exitStatus = 1
         /\ diskExists
         /\ faults = 0
         /\ \/ MarkerMissing(disk, BeginBuildFile)
            \/ MarkerMissing(disk, BeginFileRef))

=============================================================================
